---- MODULE Spec2Model ----
(***************************************************************************)
(* Ledger-safe ingestion API (api/app/main.py): the ingest transition      *)
(* (POST /v1/events) and the operator resolve transition                   *)
(* (POST /v1/exceptions/{id}/resolve) over the four tables events_raw,     *)
(* events_processed, exceptions and audit_log.                             *)
(*                                                                         *)
(* JSON values are tagged records: JNull, JStr(s), JInt(n), JObj(f) with f *)
(* a function from key strings to JSON values.  A Python dict has no key   *)
(* order that survives json.dumps(sort_keys=True), so canonical_json maps  *)
(* an object to its (order free) value, and sha256_hex is the collision    *)
(* free idealisation of SHA-256: a tagged wrapper around the text hashed.  *)
(***************************************************************************)
EXTENDS Integers, Sequences, FiniteSets, TLC

VARIABLES
    events_raw,        \* table events_raw: set of rows (Bronze)
    events_processed,  \* table events_processed: set of rows (idempotency ledger)
    exceptions,        \* table exceptions: set of rows
    audit_log,         \* table audit_log: sequence of rows, in insertion order
    raw_seq,           \* the sequence behind events_raw.raw_id
    ex_seq,            \* number of exception ids generated so far
    clock,             \* the database clock, now(), as a logical time
    lastResp,          \* the HTTP response of the last request served
    txs,               \* per connection, the ingest transaction in flight or last committed
    rxs,               \* per connection, the resolve transaction in flight or last committed
    merge              \* one call of json_merge_patch: its arguments and its return value

vars == <<events_raw, events_processed, exceptions, audit_log, raw_seq, ex_seq, clock, lastResp,
          txs, rxs, merge>>

tables == <<events_raw, events_processed, exceptions, audit_log>>

-----------------------------------------------------------------------------
(* Bounds of the model *)

\* at most MaxClock transactions commit: requests are served while clock < MaxClock
MaxClock == 4

\* at most MaxTx concurrent-ingest transactions begin: one begins while raw_seq < MaxTx
MaxTx == 3

\* the JSON objects given to json_merge_patch have at most MaxKeys member names
MaxKeys == 1

-----------------------------------------------------------------------------
(* Values *)

\* SQL NULL / Python None in an integer or timestamp position
NULL == -1

\* SQL NULL / Python None in a text position
NULLSTR == "<null>"

JNull == [t |-> "null"]

JStr(s) == [t |-> "str", s |-> s]

JInt(n) == [t |-> "int", n |-> n]

JObj(f) == [t |-> "obj", o |-> f]

EmptyDict == [k \in {} |-> JNull]

IsDict(v) == v.t = "obj"

IsStr(v) == v.t = "str"

IsNone(v) == v.t = "null"

ALLOWED_EVENT_TYPES == {"SALE", "RETURN", "CORRECTION", "CANCEL", "VOID"}

ALLOWED_RESOLUTION_ACTIONS == {"mark_resolved_no_replay", "override_and_replay"}

\* str.strip() on the strings of the model
Strip(s) ==
    CASE s = "  " -> ""
      [] s = " sale " -> "sale"
      [] s = " SALE " -> "SALE"
      [] s = " e1" -> "e1"
      [] OTHER -> s

\* str.upper() on the strings of the model
Upper(s) ==
    CASE s = "sale" -> "SALE"
      [] s = " sale " -> " SALE "
      [] s = "foo" -> "FOO"
      [] OTHER -> s

\* str(x) of a JSON value read from a payload (line 675)
PyStr(v) ==
    CASE v.t = "str" -> v.s
      [] v.t = "null" -> "None"
      [] v.t = "int" -> "<digits>"
      [] OTHER -> "<repr>"

canonical_json(obj) == [canon |-> obj]

sha256_hex(s) == [sha256 |-> s]

\* a merge that keeps only the members of the patch and forgets the target's
json_merge_patch_drops_target(target, patch) ==
    IF ~IsDict(patch) THEN patch
    ELSE JObj([k \in {n \in DOMAIN patch.o : ~IsNone(patch.o[n])} |-> patch.o[k]])

\* json_merge_patch (lines 36-57)
RECURSIVE json_merge_patch(_, _)
json_merge_patch(target, patch) ==
    IF ~IsDict(patch) THEN patch
    ELSE LET tgt == IF IsDict(target) THEN target.o ELSE EmptyDict
             p == patch.o
             popped == {k \in DOMAIN p : IsNone(p[k])}
             keys == (DOMAIN tgt \ popped) \cup (DOMAIN p \ popped)
         IN JObj([k \in keys |->
                    IF k \notin DOMAIN p THEN tgt[k]
                    ELSE IF IsDict(p[k]) /\ k \in DOMAIN tgt /\ IsDict(tgt[k])
                         THEN json_merge_patch(tgt[k], p[k])
                         ELSE p[k]])

-----------------------------------------------------------------------------
(* Envelope validation: EventIn *)

RequiredStrFields == {"schema_version", "tenant_id", "store_id", "source_system",
                      "event_id", "event_type", "txn_id"}

\* the strings of the model that parse as a datetime
DatetimeStrings == {"2024-01-01T00:00:00Z"}

\* a str field with min_length=1 under str_strip_whitespace
ValidStrField(payload, k) ==
    /\ k \in DOMAIN payload.o
    /\ IsStr(payload.o[k])
    /\ Strip(payload.o[k].s) # ""

EventIn_model_validate(payload) ==
    /\ IsDict(payload)
    /\ \A k \in RequiredStrFields : ValidStrField(payload, k)
    /\ "occurred_at" \in DOMAIN payload.o
    /\ \/ payload.o["occurred_at"].t = "int"
       \/ /\ IsStr(payload.o["occurred_at"])
          /\ Strip(payload.o["occurred_at"].s) \in DatetimeStrings
    /\ "source_event_id" \in DOMAIN payload.o =>
          (IsNone(payload.o["source_event_id"]) \/ IsStr(payload.o["source_event_id"]))

\* the validated model: str fields stripped
EventIn(payload) ==
    [schema_version |-> Strip(payload.o["schema_version"].s),
     tenant_id |-> Strip(payload.o["tenant_id"].s),
     store_id |-> Strip(payload.o["store_id"].s),
     source_system |-> Strip(payload.o["source_system"].s),
     event_id |-> Strip(payload.o["event_id"].s),
     source_event_id |-> IF "source_event_id" \in DOMAIN payload.o
                            /\ IsStr(payload.o["source_event_id"])
                         THEN Strip(payload.o["source_event_id"].s) ELSE NULLSTR,
     event_type |-> Strip(payload.o["event_type"].s),
     occurred_at |-> payload.o["occurred_at"],
     txn_id |-> Strip(payload.o["txn_id"].s)]

-----------------------------------------------------------------------------
(* The database, as a record of the tables *)

DB == [events_raw |-> events_raw, events_processed |-> events_processed,
       exceptions |-> exceptions, audit_log |-> audit_log,
       raw_seq |-> raw_seq, ex_seq |-> ex_seq]

NoRow == [none |-> TRUE]

\* SELECT ... FROM events_raw WHERE raw_id = %s
fetch_events_raw(db, raw_id) ==
    IF \E r \in db.events_raw : r.raw_id = raw_id
    THEN CHOOSE r \in db.events_raw : r.raw_id = raw_id
    ELSE NoRow

\* SELECT ... FROM events_processed WHERE tenant_id = %s AND idempotency_key = %s
select_events_processed(db, tenant_id, idempotency_key) ==
    IF \E r \in db.events_processed : r.tenant_id = tenant_id /\ r.idempotency_key = idempotency_key
    THEN CHOOSE r \in db.events_processed : r.tenant_id = tenant_id /\ r.idempotency_key = idempotency_key
    ELSE NoRow

\* SELECT ... FROM exceptions WHERE exception_id = %s
select_exception(db, exception_id) ==
    IF \E r \in db.exceptions : r.exception_id = exception_id
    THEN CHOOSE r \in db.exceptions : r.exception_id = exception_id
    ELSE NoRow

-----------------------------------------------------------------------------
(* Responses *)

NoHash == [none |-> TRUE]

\* JSONResponse of ingest_event (lines 332-342, 344-354, 359-369, 371-381, 398-408)
IngestResponse(status_code, tenant_id, idempotency_key, raw_id, result, exception_id, reason_code) ==
    [op |-> "ingest", status_code |-> status_code, error |-> NULLSTR,
     tenant_id |-> tenant_id, idempotency_key |-> idempotency_key, raw_id |-> raw_id,
     result |-> result, exception_id |-> exception_id, reason_code |-> reason_code,
     replay_attempted |-> FALSE, canonical_raw_id |-> NULL, final_payload_hash |-> NoHash]

\* HTTPException(status_code, detail={"error": ...})
HTTPException(op, status_code, error) ==
    [op |-> op, status_code |-> status_code, error |-> error,
     tenant_id |-> NULLSTR, idempotency_key |-> NULLSTR, raw_id |-> NULL,
     result |-> NULLSTR, exception_id |-> NULL, reason_code |-> NULLSTR,
     replay_attempted |-> FALSE, canonical_raw_id |-> NULL, final_payload_hash |-> NoHash]

\* the dict returned by resolve_exception (lines 650-654, 743-752)
ResolveResponse(exception_id, attempted, result, canonical_raw_id, final_payload_hash) ==
    [op |-> "resolve", status_code |-> 200, error |-> NULLSTR,
     tenant_id |-> NULLSTR, idempotency_key |-> NULLSTR, raw_id |-> NULL,
     result |-> result, exception_id |-> exception_id, reason_code |-> NULLSTR,
     replay_attempted |-> attempted, canonical_raw_id |-> canonical_raw_id,
     final_payload_hash |-> final_payload_hash]

NoResponse == HTTPException("none", 0, NULLSTR)

-----------------------------------------------------------------------------
(* _create_exception_and_quarantine *)

\* column defaults of a new exceptions row
ExceptionDefaults ==
    [resolved_at |-> NULL, resolution_action |-> NULLSTR, resolution_notes |-> NULLSTR,
     resolution_actor |-> NULLSTR, override_patch |-> JNull, replay_attempts |-> 0,
     last_replay_at |-> NULL, last_replay_status |-> NULLSTR]

\* INSERT INTO exceptions (...) VALUES (..., 'open') RETURNING exception_id
insert_exception(db, tenant_id, raw_id, idempotency_key, reason_code, details, now) ==
    [db EXCEPT
       !.ex_seq = @ + 1,
       !.exceptions = @ \cup
          {[exception_id |-> db.ex_seq + 1, tenant_id |-> tenant_id, raw_id |-> raw_id,
            idempotency_key |-> idempotency_key, reason_code |-> reason_code,
            details_json |-> details, status |-> "open", created_at |-> now,
            resolved_at |-> ExceptionDefaults.resolved_at,
            resolution_action |-> ExceptionDefaults.resolution_action,
            resolution_notes |-> ExceptionDefaults.resolution_notes,
            resolution_actor |-> ExceptionDefaults.resolution_actor,
            override_patch |-> ExceptionDefaults.override_patch,
            replay_attempts |-> ExceptionDefaults.replay_attempts,
            last_replay_at |-> ExceptionDefaults.last_replay_at,
            last_replay_status |-> ExceptionDefaults.last_replay_status]}]

\* the UPDATE of update_quarantined without its last_exception_id assignment
update_quarantined_keeps_pointer(db, tenant_id, idempotency_key, reason_code, exception_id) ==
    [db EXCEPT !.events_processed =
       {IF r.tenant_id = tenant_id /\ r.idempotency_key = idempotency_key
        THEN [r EXCEPT !.status = "quarantined", !.last_error_code = reason_code,
                       !.processed_at = NULL]
        ELSE r : r \in @}]

\* the UPDATE of update_quarantined without its processed_at = NULL assignment
update_quarantined_keeps_processed_at(db, tenant_id, idempotency_key, reason_code, exception_id) ==
    [db EXCEPT !.events_processed =
       {IF r.tenant_id = tenant_id /\ r.idempotency_key = idempotency_key
        THEN [r EXCEPT !.status = "quarantined", !.last_error_code = reason_code,
                       !.last_exception_id = exception_id]
        ELSE r : r \in @}]

\* UPDATE events_processed SET status = 'quarantined', ... WHERE tenant_id, idempotency_key
update_quarantined(db, tenant_id, idempotency_key, reason_code, exception_id) ==
    [db EXCEPT !.events_processed =
       {IF r.tenant_id = tenant_id /\ r.idempotency_key = idempotency_key
        THEN [r EXCEPT !.status = "quarantined", !.last_error_code = reason_code,
                       !.last_exception_id = exception_id, !.processed_at = NULL]
        ELSE r : r \in @}]

\* an audit INSERT that overwrites the newest entry instead of appending
insert_audit_log_overwrites_last(db, actor, action, object_id, notes, after_json, now) ==
    [db EXCEPT !.audit_log =
       (IF Len(@) = 0 THEN @ ELSE SubSeq(@, 1, Len(@) - 1)) \o
       <<[actor |-> actor, action |-> action, object_type |-> "exception",
          object_id |-> object_id, notes |-> notes, after_json |-> after_json, at |-> now]>>]

\* INSERT INTO audit_log (actor, action, object_type, object_id, notes, after_json)
insert_audit_log(db, actor, action, object_id, notes, after_json, now) ==
    [db EXCEPT !.audit_log = Append(@,
       [actor |-> actor, action |-> action, object_type |-> "exception",
        object_id |-> object_id, notes |-> notes, after_json |-> after_json, at |-> now])]

\* the database after _create_exception_and_quarantine; the id it returns is .ex_seq
create_exception_and_quarantine(db, tenant_id, raw_id, idempotency_key, reason_code, details, now) ==
    LET db1 == insert_exception(db, tenant_id, raw_id, idempotency_key, reason_code, details, now)
        exception_id == db1.ex_seq
        db2 == update_quarantined(db1, tenant_id, idempotency_key, reason_code, exception_id)
    IN insert_audit_log(db2, "system", "quarantine", exception_id, reason_code,
                        [reason_code |-> reason_code, raw_id |-> raw_id], now)

-----------------------------------------------------------------------------
(* ingest_event *)

\* a Bronze write that draws a raw_id and loses the row
ingest_bronze_write_loses_row(db, event, event_type, payload_hash, payload, now) ==
    [db EXCEPT !.raw_seq = @ + 1]

\* a Bronze write that replaces the earlier rows of the same (tenant_id, event_id)
ingest_bronze_write_replaces_same_event(db, event, event_type, payload_hash, payload, now) ==
    [db EXCEPT
       !.raw_seq = @ + 1,
       !.events_raw =
          {r \in @ : r.tenant_id # event.tenant_id \/ r.event_id # event.event_id} \cup
          {[raw_id |-> db.raw_seq + 1, tenant_id |-> event.tenant_id,
            store_id |-> event.store_id, source_system |-> event.source_system,
            schema_version |-> event.schema_version, received_at |-> now,
            occurred_at |-> event.occurred_at, event_id |-> event.event_id,
            source_event_id |-> event.source_event_id, event_type |-> event_type,
            txn_id |-> event.txn_id, payload_hash |-> payload_hash,
            payload_json |-> payload]}]

\* 1) Bronze write (always append); the raw_id returned is .raw_seq
ingest_bronze_write(db, event, event_type, payload_hash, payload, now) ==
    [db EXCEPT
       !.raw_seq = @ + 1,
       !.events_raw = @ \cup
          {[raw_id |-> db.raw_seq + 1, tenant_id |-> event.tenant_id,
            store_id |-> event.store_id, source_system |-> event.source_system,
            schema_version |-> event.schema_version, received_at |-> now,
            occurred_at |-> event.occurred_at, event_id |-> event.event_id,
            source_event_id |-> event.source_event_id, event_type |-> event_type,
            txn_id |-> event.txn_id, payload_hash |-> payload_hash,
            payload_json |-> payload]}]

\* whether the INSERT of the upsert meets no row with the same (tenant_id, idempotency_key)
upsert_inserts(db, tenant_id, id_key) ==
    ~ \E r \in db.events_processed : r.tenant_id = tenant_id /\ r.idempotency_key = id_key

\* an upsert whose DO UPDATE also overwrites first_raw_id
ingest_idempotency_upsert_moves_first(db, tenant_id, id_key, raw_id, hash, now) ==
    IF upsert_inserts(db, tenant_id, id_key)
    THEN [db EXCEPT !.events_processed = @ \cup
            {[tenant_id |-> tenant_id, idempotency_key |-> id_key,
              first_seen_at |-> now, last_seen_at |-> now,
              status |-> "processed", first_raw_id |-> raw_id, last_raw_id |-> raw_id,
              payload_hash_first |-> hash, payload_hash_last |-> hash,
              processed_at |-> now, last_error_code |-> NULLSTR, last_exception_id |-> NULL]}]
    ELSE [db EXCEPT !.events_processed =
            {IF r.tenant_id = tenant_id /\ r.idempotency_key = id_key
             THEN [r EXCEPT !.last_seen_at = now, !.first_raw_id = raw_id, !.last_raw_id = raw_id,
                            !.payload_hash_last = hash]
             ELSE r : r \in @}]

\* an upsert whose DO UPDATE also resets status to 'processed'
ingest_idempotency_upsert_resets_status(db, tenant_id, id_key, raw_id, hash, now) ==
    IF upsert_inserts(db, tenant_id, id_key)
    THEN [db EXCEPT !.events_processed = @ \cup
            {[tenant_id |-> tenant_id, idempotency_key |-> id_key,
              first_seen_at |-> now, last_seen_at |-> now,
              status |-> "processed", first_raw_id |-> raw_id, last_raw_id |-> raw_id,
              payload_hash_first |-> hash, payload_hash_last |-> hash,
              processed_at |-> now, last_error_code |-> NULLSTR, last_exception_id |-> NULL]}]
    ELSE [db EXCEPT !.events_processed =
            {IF r.tenant_id = tenant_id /\ r.idempotency_key = id_key
             THEN [r EXCEPT !.last_seen_at = now, !.last_raw_id = raw_id,
                            !.payload_hash_last = hash, !.status = "processed"]
             ELSE r : r \in @}]

\* 2) INSERT INTO events_processed ... ON CONFLICT (tenant_id, idempotency_key) DO UPDATE SET ...
ingest_idempotency_upsert(db, tenant_id, id_key, raw_id, hash, now) ==
    IF upsert_inserts(db, tenant_id, id_key)
    THEN [db EXCEPT !.events_processed = @ \cup
            {[tenant_id |-> tenant_id, idempotency_key |-> id_key,
              first_seen_at |-> now, last_seen_at |-> now,
              status |-> "processed", first_raw_id |-> raw_id, last_raw_id |-> raw_id,
              payload_hash_first |-> hash, payload_hash_last |-> hash,
              processed_at |-> now, last_error_code |-> NULLSTR, last_exception_id |-> NULL]}]
    ELSE [db EXCEPT !.events_processed =
            {IF r.tenant_id = tenant_id /\ r.idempotency_key = id_key
             THEN [r EXCEPT !.last_seen_at = now, !.last_raw_id = raw_id,
                            !.payload_hash_last = hash]
             ELSE r : r \in @}]

\* RETURNING (xmax = 0) AS inserted, status, first_raw_id, last_raw_id, payload_hash_first, last_exception_id
upsert_returning(db_before, db_after, tenant_id, id_key) ==
    LET row == select_events_processed(db_after, tenant_id, id_key)
    IN [inserted |-> upsert_inserts(db_before, tenant_id, id_key),
        current_status |-> row.status, first_raw_id |-> row.first_raw_id,
        last_raw_id |-> row.last_raw_id, payload_hash_first |-> row.payload_hash_first,
        last_exception_id |-> row.last_exception_id]

\* a first-time branch that accepts every event type
ingest_first_time_accepts_any_type(db, tenant_id, idempotency_key, raw_id, event_type, now) ==
    [db |-> db,
     resp |-> IngestResponse(201, tenant_id, idempotency_key, raw_id, "processed",
                             NULL, NULLSTR)]

\* 3) First time: minimal gates (lines 317-354)
ingest_first_time(db, tenant_id, idempotency_key, raw_id, event_type, now) ==
    IF event_type \notin ALLOWED_EVENT_TYPES
    THEN LET db1 == create_exception_and_quarantine(db, tenant_id, raw_id, idempotency_key,
                       "UNKNOWN_EVENT_TYPE",
                       [event_type |-> event_type, allowed_event_types |-> ALLOWED_EVENT_TYPES,
                        message |-> "Event type is not supported by the ingestion simulator MVP."],
                       now)
         IN [db |-> db1,
             resp |-> IngestResponse(202, tenant_id, idempotency_key, raw_id, "quarantined",
                                     db1.ex_seq, "UNKNOWN_EVENT_TYPE")]
    ELSE [db |-> db,
          resp |-> IngestResponse(201, tenant_id, idempotency_key, raw_id, "processed",
                                  NULL, NULLSTR)]

\* the seen-before branch without the check of the prior status (lines 358-369)
ingest_seen_before_ignores_status(db, tenant_id, idempotency_key, raw_id, payload_hash, ret, now) ==
    IF ret.payload_hash_first = payload_hash
    THEN [db |-> db,
          resp |-> IngestResponse(200, tenant_id, idempotency_key, raw_id, "duplicate",
                                  NULL, NULLSTR)]
    ELSE LET db1 == create_exception_and_quarantine(db, tenant_id, raw_id, idempotency_key,
                       "IDEMPOTENCY_CONFLICT",
                       [message |-> "Same idempotency_key seen with different payload hash.",
                        existing_payload_hash |-> ret.payload_hash_first,
                        new_payload_hash |-> payload_hash,
                        first_raw_id |-> ret.first_raw_id, new_raw_id |-> raw_id],
                       now)
         IN [db |-> db1,
             resp |-> IngestResponse(202, tenant_id, idempotency_key, raw_id, "quarantined",
                                     db1.ex_seq, "IDEMPOTENCY_CONFLICT")]

\* Seen before (lines 356-408)
ingest_seen_before(db, tenant_id, idempotency_key, raw_id, payload_hash, ret, now) ==
    IF ret.payload_hash_first = payload_hash
    THEN IF ret.current_status = "quarantined"
         THEN [db |-> db,
               resp |-> IngestResponse(202, tenant_id, idempotency_key, raw_id, "quarantined",
                                       ret.last_exception_id, "ALREADY_QUARANTINED")]
         ELSE [db |-> db,
               resp |-> IngestResponse(200, tenant_id, idempotency_key, raw_id, "duplicate",
                                       NULL, NULLSTR)]
    ELSE LET db1 == create_exception_and_quarantine(db, tenant_id, raw_id, idempotency_key,
                       "IDEMPOTENCY_CONFLICT",
                       [message |-> "Same idempotency_key seen with different payload hash.",
                        existing_payload_hash |-> ret.payload_hash_first,
                        new_payload_hash |-> payload_hash,
                        first_raw_id |-> ret.first_raw_id, new_raw_id |-> raw_id],
                       now)
         IN [db |-> db1,
             resp |-> IngestResponse(202, tenant_id, idempotency_key, raw_id, "quarantined",
                                     db1.ex_seq, "IDEMPOTENCY_CONFLICT")]

\* the request body that request.json() cannot decode
InvalidJson == [t |-> "invalid"]

\* the transaction of ingest_event (lines 253-408) for a validated payload
ingest_transaction(db, payload, payload_hash, now) ==
    LET event == EventIn(payload)
        tenant_id == event.tenant_id
        event_type == Strip(Upper(event.event_type))
        idempotency_key == event.event_id
        db1 == ingest_bronze_write(db, event, event_type, payload_hash, payload, now)
        raw_id == db1.raw_seq
        db2 == ingest_idempotency_upsert(db1, tenant_id, idempotency_key, raw_id, payload_hash, now)
        ret == upsert_returning(db1, db2, tenant_id, idempotency_key)
    IN IF ret.inserted
       THEN ingest_first_time(db2, tenant_id, idempotency_key, raw_id, event_type, now)
       ELSE ingest_seen_before(db2, tenant_id, idempotency_key, raw_id, payload_hash, ret, now)

\* POST /v1/events: the database and the response after the request
ingest_event(db, body, now) ==
    IF body = InvalidJson
    THEN [db |-> db, resp |-> HTTPException("ingest", 400, "INVALID_JSON")]
    ELSE LET payload_hash == sha256_hex(canonical_json(body))
         IN IF ~EventIn_model_validate(body)
            THEN [db |-> db, resp |-> HTTPException("ingest", 400, "VALIDATION_ERROR")]
            ELSE ingest_transaction(db, body, payload_hash, now)

-----------------------------------------------------------------------------
(* resolve_exception *)

\* UPDATE exceptions SET status = 'resolved', ... last_replay_status = 'not_replayed'
\* WHERE exception_id = %s (lines 605-617)
no_replay_update_exception(db, exception_id, body, now) ==
    [db EXCEPT !.exceptions =
       {IF r.exception_id = exception_id
        THEN [r EXCEPT !.status = "resolved", !.resolved_at = now,
                       !.resolution_action = body.action,
                       !.resolution_notes = body.resolution_notes,
                       !.resolution_actor = body.actor,
                       !.last_replay_status = "not_replayed"]
        ELSE r : r \in @}]

\* a no-replay UPDATE that clears the pointer to the exception
no_replay_update_events_processed_clears_pointer(db, ex, exception_id, now) ==
    [db EXCEPT !.events_processed =
       {IF r.tenant_id = ex.tenant_id /\ r.idempotency_key = ex.idempotency_key
        THEN [r EXCEPT !.status = "ignored", !.processed_at = now,
                       !.last_error_code = "IGNORED_BY_OPERATOR",
                       !.last_exception_id = NULL]
        ELSE r : r \in @}]

\* UPDATE events_processed SET status = 'ignored', ... WHERE tenant_id = %s AND
\* idempotency_key = %s (lines 619-629)
no_replay_update_events_processed(db, ex, exception_id, now) ==
    [db EXCEPT !.events_processed =
       {IF r.tenant_id = ex.tenant_id /\ r.idempotency_key = ex.idempotency_key
        THEN [r EXCEPT !.status = "ignored", !.processed_at = now,
                       !.last_error_code = "IGNORED_BY_OPERATOR",
                       !.last_exception_id = exception_id]
        ELSE r : r \in @}]

\* INSERT INTO audit_log ... 'resolve_no_replay' (lines 631-648)
no_replay_insert_audit_log(db, ex, exception_id, body, now) ==
    insert_audit_log(db, body.actor, "resolve_no_replay", exception_id,
       body.resolution_notes,
       [action |-> body.action, idempotency_key |-> ex.idempotency_key,
        decision_time |-> now], now)

\* ---- Action: resolve without replay (ignore) ---- (lines 603-654)
resolve_no_replay(db, ex, exception_id, body, now) ==
    LET db1 == no_replay_update_exception(db, exception_id, body, now)
        db2 == no_replay_update_events_processed(db1, ex, exception_id, now)
        db3 == no_replay_insert_audit_log(db2, ex, exception_id, body, now)
    IN [db |-> db3, resp |-> ResolveResponse(exception_id, FALSE, NULLSTR, NULL, NoHash)]

\* canonical_raw_id = int(body.canonical_raw_id) if body.canonical_raw_id else int(ex["raw_id"])
chosen_canonical_raw_id(body, ex) ==
    IF body.canonical_raw_id # NULL /\ body.canonical_raw_id # 0
    THEN body.canonical_raw_id
    ELSE ex.raw_id

\* str(final_payload.get("event_type", "")).upper().strip()
final_event_type_of(final_payload) ==
    IF "event_type" \in DOMAIN final_payload.o
    THEN Strip(Upper(PyStr(final_payload.o["event_type"])))
    ELSE ""

\* a replay UPDATE that rewrites payload_hash_first and leaves payload_hash_last alone
replay_update_events_processed_keeps_last(db, ex, final_hash, now) ==
    [db EXCEPT !.events_processed =
       {IF r.tenant_id = ex.tenant_id /\ r.idempotency_key = ex.idempotency_key
        THEN [r EXCEPT !.status = "processed", !.processed_at = now,
                       !.payload_hash_first = final_hash,
                       !.last_error_code = NULLSTR,
                       !.last_exception_id = NULL]
        ELSE r : r \in @}]

\* a replay UPDATE that rewrites payload_hash_last only and keeps payload_hash_first
replay_update_events_processed_keeps_first(db, ex, final_hash, now) ==
    [db EXCEPT !.events_processed =
       {IF r.tenant_id = ex.tenant_id /\ r.idempotency_key = ex.idempotency_key
        THEN [r EXCEPT !.status = "processed", !.processed_at = now,
                       !.payload_hash_last = final_hash,
                       !.last_error_code = NULLSTR,
                       !.last_exception_id = NULL]
        ELSE r : r \in @}]

\* UPDATE events_processed SET status = 'processed', ... payload_hash_first = %s,
\* payload_hash_last = %s ... WHERE tenant_id = %s AND idempotency_key = %s (lines 691-703)
replay_update_events_processed(db, ex, final_hash, now) ==
    [db EXCEPT !.events_processed =
       {IF r.tenant_id = ex.tenant_id /\ r.idempotency_key = ex.idempotency_key
        THEN [r EXCEPT !.status = "processed", !.processed_at = now,
                       !.payload_hash_first = final_hash,
                       !.payload_hash_last = final_hash,
                       !.last_error_code = NULLSTR,
                       !.last_exception_id = NULL]
        ELSE r : r \in @}]

\* UPDATE exceptions SET status = 'resolved', ... replay_attempts = replay_attempts + 1 ...
\* WHERE exception_id = %s (lines 705-720)
replay_update_exception(db, exception_id, body, now) ==
    [db EXCEPT !.exceptions =
       {IF r.exception_id = exception_id
        THEN [r EXCEPT !.status = "resolved", !.resolved_at = now,
                       !.resolution_action = body.action,
                       !.resolution_notes = body.resolution_notes,
                       !.resolution_actor = body.actor,
                       !.override_patch = JObj(body.override_patch),
                       !.replay_attempts = @ + 1,
                       !.last_replay_at = now,
                       !.last_replay_status = "processed"]
        ELSE r : r \in @}]

\* INSERT INTO audit_log ... 'resolve_and_replay' (lines 722-741)
replay_insert_audit_log(db, ex, exception_id, body, canonical_raw_id, final_hash, now) ==
    insert_audit_log(db, body.actor, "resolve_and_replay", exception_id,
       body.resolution_notes,
       [action |-> body.action, idempotency_key |-> ex.idempotency_key,
        canonical_raw_id |-> canonical_raw_id, final_payload_hash |-> final_hash,
        decision_time |-> now], now)

\* the three UPDATE/INSERT statements of a replay that passed its checks (lines 689-752)
replay_commit(db, ex, exception_id, body, canonical_raw_id, final_hash, now) ==
    LET db1 == replay_update_events_processed(db, ex, final_hash, now)
        db2 == replay_update_exception(db1, exception_id, body, now)
        db3 == replay_insert_audit_log(db2, ex, exception_id, body, canonical_raw_id,
                                       final_hash, now)
    IN [db |-> db3,
        resp |-> ResolveResponse(exception_id, TRUE, "processed", canonical_raw_id, final_hash)]

\* a replay without the tenant comparison of line 666
canonical_tenant_unchecked(canonical_raw, ex) == FALSE

\* if canonical_raw["tenant_id"] != ex["tenant_id"]
canonical_tenant_mismatch(canonical_raw, ex) ==
    canonical_raw.tenant_id # ex.tenant_id

\* a replay that updates events_processed and exceptions before it validates the event type
resolve_override_and_replay_validates_late(db, ex, exception_id, body, now) ==
    LET canonical_raw_id == chosen_canonical_raw_id(body, ex)
        canonical_raw == fetch_events_raw(db, canonical_raw_id)
    IN IF canonical_raw = NoRow
       THEN [db |-> db, resp |-> HTTPException("resolve", 400, "INVALID_CANONICAL_RAW_ID")]
       ELSE IF canonical_raw.tenant_id # ex.tenant_id
       THEN [db |-> db, resp |-> HTTPException("resolve", 400, "CANONICAL_RAW_TENANT_MISMATCH")]
       ELSE LET final_payload == json_merge_patch(canonical_raw.payload_json,
                                                  JObj(body.override_patch))
                final_hash == sha256_hex(canonical_json(final_payload))
                final_event_type == final_event_type_of(final_payload)
                done == replay_commit(db, ex, exception_id, body, canonical_raw_id, final_hash, now)
            IN IF final_event_type = ""
               THEN [db |-> done.db,
                     resp |-> HTTPException("resolve", 400, "MISSING_EVENT_TYPE_IN_PAYLOAD")]
               ELSE IF final_event_type \notin ALLOWED_EVENT_TYPES
               THEN [db |-> done.db,
                     resp |-> HTTPException("resolve", 409, "REPLAY_VALIDATION_FAILED")]
               ELSE done

\* ---- Action: override + replay ---- (lines 656-752)
resolve_override_and_replay(db, ex, exception_id, body, now) ==
    LET canonical_raw_id == chosen_canonical_raw_id(body, ex)
        canonical_raw == fetch_events_raw(db, canonical_raw_id)
    IN IF canonical_raw = NoRow
       THEN [db |-> db, resp |-> HTTPException("resolve", 400, "INVALID_CANONICAL_RAW_ID")]
       ELSE IF canonical_tenant_mismatch(canonical_raw, ex)
       THEN [db |-> db, resp |-> HTTPException("resolve", 400, "CANONICAL_RAW_TENANT_MISMATCH")]
       ELSE LET final_payload == json_merge_patch(canonical_raw.payload_json,
                                                  JObj(body.override_patch))
                final_hash == sha256_hex(canonical_json(final_payload))
                final_event_type == final_event_type_of(final_payload)
            IN IF final_event_type = ""
               THEN [db |-> db,
                     resp |-> HTTPException("resolve", 400, "MISSING_EVENT_TYPE_IN_PAYLOAD")]
               ELSE IF final_event_type \notin ALLOWED_EVENT_TYPES
               THEN [db |-> db, resp |-> HTTPException("resolve", 409, "REPLAY_VALIDATION_FAILED")]
               ELSE replay_commit(db, ex, exception_id, body, canonical_raw_id, final_hash, now)

\* a resolve that does not look at the status of the exception it found
resolve_exception_ignores_status(db, exception_id, body, now) ==
    IF body.action \notin ALLOWED_RESOLUTION_ACTIONS
    THEN [db |-> db, resp |-> HTTPException("resolve", 400, "INVALID_ACTION")]
    ELSE LET ex == select_exception(db, exception_id)
         IN IF ex = NoRow
            THEN [db |-> db, resp |-> HTTPException("resolve", 404, "NOT_FOUND")]
            ELSE IF select_events_processed(db, ex.tenant_id, ex.idempotency_key) = NoRow
            THEN [db |-> db, resp |-> HTTPException("resolve", 409, "MISSING_IDEMPOTENCY_RECORD")]
            ELSE IF body.action = "mark_resolved_no_replay"
            THEN resolve_no_replay(db, ex, exception_id, body, now)
            ELSE resolve_override_and_replay(db, ex, exception_id, body, now)

\* POST /v1/exceptions/{exception_id}/resolve: the database and the response after the request
resolve_exception(db, exception_id, body, now) ==
    IF body.action \notin ALLOWED_RESOLUTION_ACTIONS
    THEN [db |-> db, resp |-> HTTPException("resolve", 400, "INVALID_ACTION")]
    ELSE LET ex == select_exception(db, exception_id)
         IN IF ex = NoRow
            THEN [db |-> db, resp |-> HTTPException("resolve", 404, "NOT_FOUND")]
            ELSE IF ex.status # "open"
            THEN [db |-> db, resp |-> HTTPException("resolve", 409, "ALREADY_RESOLVED")]
            ELSE IF select_events_processed(db, ex.tenant_id, ex.idempotency_key) = NoRow
            THEN [db |-> db, resp |-> HTTPException("resolve", 409, "MISSING_IDEMPOTENCY_RECORD")]
            ELSE IF body.action = "mark_resolved_no_replay"
            THEN resolve_no_replay(db, ex, exception_id, body, now)
            ELSE resolve_override_and_replay(db, ex, exception_id, body, now)

-----------------------------------------------------------------------------
(* Requests *)

Payload(tenant_id, event_id, event_type, txn_id) ==
    JObj([schema_version |-> JStr("1"), tenant_id |-> JStr(tenant_id),
          store_id |-> JStr("S"), source_system |-> JStr("pos"),
          event_id |-> JStr(event_id), event_type |-> JStr(event_type),
          occurred_at |-> JStr("2024-01-01T00:00:00Z"), txn_id |-> JStr(txn_id)])

\* the request bodies producers submit
Submissions ==
    {InvalidJson,
     Payload("T1", "e1", "SALE", "x"), Payload("T1", "e1", "SALE", "y"),
     Payload("T1", "e1", "FOO", "x"),
     Payload("T2", "e1", " sale ", "x"),
     json_merge_patch(Payload("T1", "e1", "SALE", "x"), JObj([txn_id |-> JNull]))}

\* the merge patches operators send
Patches ==
    {EmptyDict,
     [txn_id |-> JStr("z")],
     [event_type |-> JNull],
     [event_type |-> JStr("SALE"), event_id |-> JStr("e2")]}

ResolveBody(action, override_patch, canonical_raw_id) ==
    [action |-> action, actor |-> "op:alice", resolution_notes |-> "",
     override_patch |-> override_patch, canonical_raw_id |-> canonical_raw_id]

\* the resolve requests operators send: a replay with every patch and every choice of
\* canonical raw event (none, 0, an existing one, a missing one), an ignore, an unknown action
ResolveBodies ==
    {ResolveBody("override_and_replay", p, c) :
        p \in Patches, c \in {NULL} \cup (0 .. raw_seq + 1)}
    \cup {ResolveBody("mark_resolved_no_replay", EmptyDict, NULL),
          ResolveBody("reopen", EmptyDict, NULL)}

\* the payloads that replays have produced so far: an operator or producer can submit them
ReplayedPayloads ==
    {json_merge_patch(fetch_events_raw(DB, audit_log[i].after_json.canonical_raw_id).payload_json,
                      select_exception(DB, audit_log[i].object_id).override_patch) :
       i \in {j \in DOMAIN audit_log : audit_log[j].action = "resolve_and_replay"}}

-----------------------------------------------------------------------------
(* Two connections (_connect), each serving one ingest_event transaction at a time *)

Sessions == {"c1", "c2"}

\* what a transaction has written and not yet committed
NoDelta == [raw_add |-> {}, ep_del |-> {}, ep_add |-> {}, ex_add |-> {}, audit_add |-> << >>]

\* a connection with no transaction
IdleTx == [pc |-> "idle", body |-> InvalidJson, raw_id |-> NULL, begun |-> NULL, ended |-> NULL,
           prior |-> FALSE, inserted |-> FALSE, first_raw_id |-> NULL, delta |-> NoDelta,
           resp |-> NoResponse]

\* the rows a resolve transaction has updated and not yet committed
NoWrites == [ex_del |-> {}, ex_add |-> {}, ep_del |-> {}, ep_add |-> {}]

\* a connection with no resolve transaction
IdleRx == [pc |-> "idle", exception_id |-> NULL, body |-> ResolveBody("reopen", EmptyDict, NULL),
           ex |-> NoRow, canonical_raw_id |-> NULL, final_hash |-> NoHash, now |-> NULL,
           holds |-> {}, writes |-> NoWrites, resp |-> NoResponse]

\* the (tenant_id, idempotency_key) of the transaction's event
TxKey(tx) == <<EventIn(tx.body).tenant_id, EventIn(tx.body).event_id>>

-----------------------------------------------------------------------------
(* Calls of json_merge_patch on bounded JSON values *)

KeyNames == <<"a", "b", "c">>

\* the member names of the objects
Keys == {KeyNames[i] : i \in 1 .. MaxKeys}

Scalars == {JNull, JInt(1), JStr("z")}

\* the objects over Keys with members drawn from values
ObjectsOver(values) ==
    UNION {{JObj(f) : f \in [K -> values]} : K \in SUBSET Keys}

\* scalars, null and objects nested up to two levels
JsonValues == Scalars \cup ObjectsOver(Scalars \cup ObjectsOver(Scalars))

\* no call made
NoCall == [pc |-> "none", target |-> JNull, patch |-> JNull, result |-> JNull]

-----------------------------------------------------------------------------
(* The state machine: requests served one at a time *)

Init ==
    /\ events_raw = {}
    /\ events_processed = {}
    /\ exceptions = {}
    /\ audit_log = << >>
    /\ raw_seq = 0
    /\ ex_seq = 0
    /\ clock = 0
    /\ lastResp = NoResponse
    /\ txs = [s \in Sessions |-> IdleTx]
    /\ rxs = [s \in Sessions |-> IdleRx]
    /\ merge = NoCall

Commit(r) ==
    /\ events_raw' = r.db.events_raw
    /\ events_processed' = r.db.events_processed
    /\ exceptions' = r.db.exceptions
    /\ audit_log' = r.db.audit_log
    /\ raw_seq' = r.db.raw_seq
    /\ ex_seq' = r.db.ex_seq
    /\ clock' = IF r.db = DB THEN clock ELSE clock + 1
    /\ lastResp' = r.resp
    /\ UNCHANGED <<txs, rxs, merge>>

IngestStep(body) ==
    /\ clock < MaxClock
    /\ Commit(ingest_event(DB, body, clock + 1))

ResolveStep(exception_id, body) ==
    /\ clock < MaxClock
    /\ Commit(resolve_exception(DB, exception_id, body, clock + 1))

Ingest ==
    \E body \in Submissions \cup ReplayedPayloads : IngestStep(body)

Resolve ==
    \E exception_id \in 1 .. ex_seq + 1, body \in ResolveBodies : ResolveStep(exception_id, body)

Next == Ingest \/ Resolve

Spec == Init /\ [][Next]_vars

-----------------------------------------------------------------------------
(* The state machine of concurrent ingests: every statement of a transaction sees the rows
   committed so far (READ COMMITTED) and its own; sequences are drawn outside the
   transaction; a row inserted or updated stays locked until conn.transaction() commits *)

\* the bodies the concurrent clients post
ConcurrentSubmissions ==
    {InvalidJson, Payload("T1", "e1", "SALE", "x"), Payload("T1", "e1", "SALE", "y"),
     Payload("T2", "e1", " sale ", "x")}

\* the request is answered before a transaction begins (lines 229-239)
TxReject(s, body) ==
    /\ txs[s].pc \in {"idle", "done", "aborted"}
    /\ raw_seq < MaxTx
    /\ body = InvalidJson \/ ~EventIn_model_validate(body)
    /\ lastResp' = ingest_event(DB, body, clock + 1).resp
    /\ UNCHANGED <<tables, raw_seq, ex_seq, clock, txs, rxs, merge>>

\* conn.transaction() begins and 1) the Bronze INSERT draws raw_id from the sequence
TxBegin(s, body) ==
    /\ txs[s].pc \in {"idle", "done", "aborted"}
    /\ raw_seq < MaxTx
    /\ body # InvalidJson
    /\ EventIn_model_validate(body)
    /\ raw_seq' = raw_seq + 1
    /\ txs' = [txs EXCEPT ![s] =
                 [IdleTx EXCEPT !.pc = "bronze", !.body = body, !.raw_id = raw_seq + 1,
                                !.begun = clock,
                                !.prior = ~upsert_inserts(DB, EventIn(body).tenant_id,
                                                          EventIn(body).event_id)]]
    /\ UNCHANGED <<tables, ex_seq, clock, lastResp, rxs, merge>>

\* an upsert that never waits for another transaction
upsert_never_waits(s) == FALSE

\* 2) the INSERT ... ON CONFLICT (tenant_id, idempotency_key) waits while another
\* transaction holds an uncommitted row of the same key
upsert_waits(s) ==
    \E t \in Sessions \ {s} : txs[t].pc = "upserted" /\ TxKey(txs[t]) = TxKey(txs[s])

\* 2) the upsert and the statements after it (lines 284-408), which touch only rows this
\* transaction has locked or inserted
TxUpsert(s) ==
    /\ txs[s].pc = "bronze"
    /\ ~upsert_waits(s)
    /\ LET tx == txs[s]
           key == TxKey(tx)
           base == [DB EXCEPT !.raw_seq = tx.raw_id - 1]
           r == ingest_transaction(base, tx.body, sha256_hex(canonical_json(tx.body)),
                                   tx.begun + 1)
       IN /\ ex_seq' = r.db.ex_seq
          /\ txs' = [txs EXCEPT ![s] =
                       [tx EXCEPT !.pc = "upserted",
                                  !.inserted = upsert_inserts(DB, key[1], key[2]),
                                  !.first_raw_id =
                                      select_events_processed(r.db, key[1], key[2]).first_raw_id,
                                  !.delta =
                                      [raw_add |-> r.db.events_raw \ events_raw,
                                       ep_del |-> events_processed \ r.db.events_processed,
                                       ep_add |-> r.db.events_processed \ events_processed,
                                       ex_add |-> r.db.exceptions \ exceptions,
                                       audit_add |-> SubSeq(r.db.audit_log, Len(audit_log) + 1,
                                                            Len(r.db.audit_log))],
                                  !.resp = r.resp]]
    /\ UNCHANGED <<tables, raw_seq, clock, lastResp, rxs, merge>>

\* conn.transaction() commits: the rows written become visible and the response is sent
TxCommit(s) ==
    /\ txs[s].pc = "upserted"
    /\ LET d == txs[s].delta
       IN /\ events_raw' = events_raw \cup d.raw_add
          /\ events_processed' = (events_processed \ d.ep_del) \cup d.ep_add
          /\ exceptions' = exceptions \cup d.ex_add
          /\ audit_log' = audit_log \o d.audit_add
    /\ clock' = clock + 1
    /\ lastResp' = txs[s].resp
    /\ txs' = [txs EXCEPT ![s] = [@ EXCEPT !.pc = "done", !.ended = clock + 1,
                                           !.delta = NoDelta, !.resp = NoResponse]]
    /\ UNCHANGED <<raw_seq, ex_seq, rxs, merge>>

Reject == \E s \in Sessions, body \in ConcurrentSubmissions : TxReject(s, body)

Begin == \E s \in Sessions, body \in ConcurrentSubmissions : TxBegin(s, body)

Upsert == \E s \in Sessions : TxUpsert(s)

CommitTx == \E s \in Sessions : TxCommit(s)

NextConc == Reject \/ Begin \/ Upsert \/ CommitTx

SpecConc == Init /\ [][NextConc]_vars

-----------------------------------------------------------------------------
(* Concurrent ingests that may fail or be cancelled: an exception raised inside
   "with conn.transaction()" rolls the transaction back *)

\* a rollback that keeps the Bronze row, as if it had been inserted outside the transaction
rolled_back_keeps_bronze(delta) == [NoDelta EXCEPT !.raw_add = delta.raw_add]

\* what a rolled back transaction leaves of its writes: nothing
rolled_back(delta) == NoDelta

\* the transaction fails or is cancelled after the Bronze insert, before its commit; the
\* raw_id and the exception_id it drew from the sequences are not given back
TxAbort(s) ==
    /\ txs[s].pc \in {"bronze", "upserted"}
    /\ LET d == rolled_back(txs[s].delta)
       IN /\ events_raw' = events_raw \cup d.raw_add
          /\ events_processed' = (events_processed \ d.ep_del) \cup d.ep_add
          /\ exceptions' = exceptions \cup d.ex_add
          /\ audit_log' = audit_log \o d.audit_add
    /\ lastResp' = HTTPException("ingest", 500, "INTERNAL_SERVER_ERROR")
    /\ txs' = [txs EXCEPT ![s] = [@ EXCEPT !.pc = "aborted", !.delta = NoDelta,
                                           !.resp = NoResponse]]
    /\ UNCHANGED <<raw_seq, ex_seq, clock, rxs, merge>>

Abort == \E s \in Sessions : TxAbort(s)

NextCancel == NextConc \/ Abort

SpecCancel == Init /\ [][NextCancel]_vars

-----------------------------------------------------------------------------
(* The state machine of concurrent resolves: the two SELECTs of resolve_exception take no
   lock; each UPDATE locks its row until conn.transaction() commits, waits while another
   transaction holds that row and then applies its SET to the row as committed *)

\* the bodies the concurrent operators post
ConcurrentResolveBodies ==
    {ResolveBody("mark_resolved_no_replay", EmptyDict, NULL),
     ResolveBody("override_and_replay", EmptyDict, NULL),
     ResolveBody("override_and_replay", [event_type |-> JNull], NULL),
     ResolveBody("reopen", EmptyDict, NULL)}

\* the row the next UPDATE of the transaction locks: exceptions then events_processed for
\* mark_resolved_no_replay (lines 605-629), events_processed then exceptions for
\* override_and_replay (lines 691-720)
NextLock(rx) ==
    IF rx.body.action = "mark_resolved_no_replay"
    THEN IF rx.pc = "checked" THEN "ex" ELSE "ep"
    ELSE IF rx.pc = "checked" THEN "ep" ELSE "ex"

\* transaction t holds the row that the UPDATE of lock names for rx
HoldsRow(t, lock, rx) ==
    /\ lock \in rxs[t].holds
    /\ IF lock = "ex"
       THEN rxs[t].exception_id = rx.exception_id
       ELSE /\ rxs[t].ex.tenant_id = rx.ex.tenant_id
            /\ rxs[t].ex.idempotency_key = rx.ex.idempotency_key

\* the request fails one of the checks made before the first UPDATE (lines 543-687)
RxRefuse(s, exception_id, body) ==
    /\ rxs[s].pc \in {"idle", "done"}
    /\ clock < MaxClock
    /\ LET r == resolve_exception(DB, exception_id, body, clock + 1)
       IN /\ r.db = DB
          /\ lastResp' = r.resp
    /\ UNCHANGED <<tables, raw_seq, ex_seq, clock, txs, rxs, merge>>

\* the request passes the checks: the exception it read is open
RxBegin(s, exception_id, body) ==
    /\ rxs[s].pc \in {"idle", "done"}
    /\ clock < MaxClock
    /\ LET r == resolve_exception(DB, exception_id, body, clock + 1)
       IN /\ r.db # DB
          /\ rxs' = [rxs EXCEPT ![s] =
                       [IdleRx EXCEPT !.pc = "checked", !.exception_id = exception_id,
                                      !.body = body, !.ex = select_exception(DB, exception_id),
                                      !.canonical_raw_id = r.resp.canonical_raw_id,
                                      !.final_hash = r.resp.final_payload_hash,
                                      !.now = clock + 1, !.resp = r.resp]]
    /\ UNCHANGED <<tables, raw_seq, ex_seq, clock, lastResp, txs, merge>>

\* one UPDATE: it waits for the row, then writes the committed row with its SET applied
RxUpdate(s) ==
    /\ rxs[s].pc \in {"checked", "updated1"}
    /\ LET rx == rxs[s]
           lock == NextLock(rx)
           no_replay == rx.body.action = "mark_resolved_no_replay"
           db1 == CASE lock = "ex" /\ no_replay ->
                          no_replay_update_exception(DB, rx.exception_id, rx.body, rx.now)
                    [] lock = "ep" /\ no_replay ->
                          no_replay_update_events_processed(DB, rx.ex, rx.exception_id, rx.now)
                    [] lock = "ep" /\ ~no_replay ->
                          replay_update_events_processed(DB, rx.ex, rx.final_hash, rx.now)
                    [] OTHER ->
                          replay_update_exception(DB, rx.exception_id, rx.body, rx.now)
       IN /\ \A t \in Sessions \ {s} : ~HoldsRow(t, lock, rx)
          /\ rxs' = [rxs EXCEPT ![s] =
                       [rx EXCEPT !.pc = IF rx.pc = "checked" THEN "updated1" ELSE "updated2",
                                  !.holds = @ \cup {lock},
                                  !.writes =
                                     IF lock = "ex"
                                     THEN [@ EXCEPT !.ex_del = exceptions \ db1.exceptions,
                                                    !.ex_add = db1.exceptions \ exceptions]
                                     ELSE [@ EXCEPT
                                             !.ep_del = events_processed \ db1.events_processed,
                                             !.ep_add = db1.events_processed \ events_processed]]]
    /\ UNCHANGED <<tables, raw_seq, ex_seq, clock, lastResp, txs, merge>>

\* the INSERT INTO audit_log, the commit of conn.transaction() and the response
RxCommit(s) ==
    /\ rxs[s].pc = "updated2"
    /\ LET rx == rxs[s]
           w == rx.writes
       IN /\ exceptions' = (exceptions \ w.ex_del) \cup w.ex_add
          /\ events_processed' = (events_processed \ w.ep_del) \cup w.ep_add
          /\ audit_log' =
                IF rx.body.action = "mark_resolved_no_replay"
                THEN no_replay_insert_audit_log(DB, rx.ex, rx.exception_id, rx.body,
                                                rx.now).audit_log
                ELSE replay_insert_audit_log(DB, rx.ex, rx.exception_id, rx.body,
                                             rx.canonical_raw_id, rx.final_hash,
                                             rx.now).audit_log
          /\ lastResp' = rx.resp
          /\ rxs' = [rxs EXCEPT ![s] = [rx EXCEPT !.pc = "done", !.holds = {},
                                                  !.writes = NoWrites]]
    /\ clock' = clock + 1
    /\ UNCHANGED <<events_raw, raw_seq, ex_seq, txs, merge>>

\* an ingest transaction that commits while no resolve holds the record of its key
IngestBetween ==
    \E body \in ConcurrentSubmissions :
       /\ \A t \in Sessions :
             IF "ep" \in rxs[t].holds /\ body # InvalidJson
             THEN <<rxs[t].ex.tenant_id, rxs[t].ex.idempotency_key>> #
                     <<EventIn(body).tenant_id, EventIn(body).event_id>>
             ELSE TRUE
       /\ IngestStep(body)

RefuseResolve ==
    \E s \in Sessions, exception_id \in 1 .. ex_seq + 1, body \in ConcurrentResolveBodies :
       RxRefuse(s, exception_id, body)

BeginResolve ==
    \E s \in Sessions, exception_id \in 1 .. ex_seq, body \in ConcurrentResolveBodies :
       RxBegin(s, exception_id, body)

UpdateResolve == \E s \in Sessions : RxUpdate(s)

CommitResolve == \E s \in Sessions : RxCommit(s)

NextResolveConc == IngestBetween \/ RefuseResolve \/ BeginResolve \/ UpdateResolve \/ CommitResolve

SpecResolveConc == Init /\ [][NextResolveConc]_vars

-----------------------------------------------------------------------------
(* The state machine of one json_merge_patch call on every pair of bounded JSON values *)

InitMerge ==
    /\ events_raw = {}
    /\ events_processed = {}
    /\ exceptions = {}
    /\ audit_log = << >>
    /\ raw_seq = 0
    /\ ex_seq = 0
    /\ clock = 0
    /\ lastResp = NoResponse
    /\ txs = [s \in Sessions |-> IdleTx]
    /\ rxs = [s \in Sessions |-> IdleRx]
    /\ merge \in {[pc |-> "called", target |-> t, patch |-> p, result |-> JNull] :
                     t \in JsonValues, p \in JsonValues}

\* json_merge_patch(target, patch) returns
MergeReturns ==
    /\ merge.pc = "called"
    /\ merge' = [merge EXCEPT !.pc = "returned",
                              !.result = json_merge_patch(merge.target, merge.patch)]
    /\ UNCHANGED <<tables, raw_seq, ex_seq, clock, lastResp, txs, rxs>>

NextMerge == MergeReturns

SpecMerge == InitMerge /\ [][NextMerge]_vars

-----------------------------------------------------------------------------
(* Shorthands of the properties *)

SameKey(a, tenant_id, idempotency_key) ==
    a.tenant_id = tenant_id /\ a.idempotency_key = idempotency_key

OpenExceptionsOf(tenant_id, idempotency_key) ==
    {e \in exceptions : SameKey(e, tenant_id, idempotency_key) /\ e.status = "open"}

RecordsOf(tenant_id, idempotency_key) ==
    {r \in events_processed : SameKey(r, tenant_id, idempotency_key)}

-----------------------------------------------------------------------------
(* C1 *)

\* C1: in every reachable state each (tenant_id, idempotency_key) has at most one
\* Exception with status = open.
C1_AtMostOneOpenException ==
    \A e1 \in exceptions, e2 \in exceptions :
        (/\ e1.status = "open" /\ e2.status = "open"
         /\ SameKey(e1, e2.tenant_id, e2.idempotency_key)) => e1 = e2

-----------------------------------------------------------------------------
(* C2 *)

\* C2: in every reachable state every IdempotencyRecord with status = quarantined has a
\* non-null last_exception_id that references an open Exception of the same key.
C2_QuarantinedPointsToOpenException ==
    \A r \in events_processed :
        r.status = "quarantined" =>
            /\ r.last_exception_id # NULL
            /\ \E e \in exceptions :
                  /\ e.exception_id = r.last_exception_id
                  /\ SameKey(e, r.tenant_id, r.idempotency_key)
                  /\ e.status = "open"

\* a key quarantined again after one of its exceptions was resolved
C2_Witness ==
    \E r \in events_processed :
        /\ r.status = "quarantined"
        /\ \E e \in exceptions :
              SameKey(e, r.tenant_id, r.idempotency_key) /\ e.status = "resolved"

-----------------------------------------------------------------------------
(* C3 *)

\* the key of the exception a resolve response names
KeyStatusProcessed(exception_id) ==
    \A e \in exceptions : e.exception_id = exception_id =>
        \A r \in events_processed' :
            SameKey(r, e.tenant_id, e.idempotency_key) => r.status = "processed"

\* C3: replay canonicalization: right after a successful override_and_replay, an ingest of
\* the resulting final_payload returns 200 duplicate, opens no Exception and leaves the
\* key's status processed.
C3_ReplayedPayloadIsDuplicate ==
    [][\A body \in ReplayedPayloads :
          (/\ lastResp.op = "resolve"
           /\ lastResp.status_code = 200
           /\ lastResp.replay_attempted
           /\ sha256_hex(canonical_json(body)) = lastResp.final_payload_hash
           /\ IngestStep(body))
          => /\ lastResp'.status_code = 200
             /\ lastResp'.result = "duplicate"
             /\ exceptions' = exceptions
             /\ KeyStatusProcessed(lastResp.exception_id)]_vars

-----------------------------------------------------------------------------
(* C4 *)

\* C4: once a key has been ingested, exactly one IdempotencyRecord exists for it in every
\* later state, and that record's first_raw_id never changes.
C4_OneRecordFirstRawIdImmutable ==
    [][/\ \A raw \in events_raw' :
             Cardinality({r \in events_processed' :
                             SameKey(r, raw.tenant_id, raw.event_id)}) = 1
       /\ \A r \in events_processed :
             /\ \E r2 \in events_processed' : SameKey(r2, r.tenant_id, r.idempotency_key)
             /\ \A r2 \in events_processed' :
                   SameKey(r2, r.tenant_id, r.idempotency_key)
                      => r2.first_raw_id = r.first_raw_id]_vars

\* a key seen twice whose record went through a replay
C4_Witness ==
    \E r \in events_processed :
        /\ r.last_raw_id # r.first_raw_id
        /\ r.status = "processed"
        /\ \E e \in exceptions :
              /\ SameKey(e, r.tenant_id, r.idempotency_key)
              /\ e.last_replay_status = "processed"

-----------------------------------------------------------------------------
(* C5 *)

Accepted(resp) == resp.status_code \in {200, 201, 202}

\* C5: an ingest commits a RawEvent row if and only if its response is 200, 201 or 202; an
\* ingest rejected with INVALID_JSON or VALIDATION_ERROR (400) writes nothing.
C5_RawEventIffAccepted ==
    [][lastResp'.op = "ingest" =>
          /\ Accepted(lastResp') <=> (events_raw' # events_raw)
          /\ Accepted(lastResp') =>
                \E row \in events_raw' \ events_raw :
                    /\ row.raw_id = lastResp'.raw_id
                    /\ events_raw' = events_raw \cup {row}
          /\ ~Accepted(lastResp') =>
                /\ lastResp'.status_code = 400
                /\ lastResp'.error \in {"INVALID_JSON", "VALIDATION_ERROR"}
                /\ UNCHANGED <<tables, raw_seq, ex_seq>>]_vars

\* a submission rejected by the envelope validation after rows were already ingested
C5_Witness ==
    /\ lastResp.op = "ingest"
    /\ lastResp.error = "VALIDATION_ERROR"
    /\ events_raw # {}

-----------------------------------------------------------------------------
(* C6 *)

\* the table of section 4.4: <<case, status code, result, reason code>> from inserted,
\* whether the event type is allowed, whether the hash equals payload_hash_first, and the
\* prior status, all read in the state before the ingest
C6_Table(body) ==
    LET event == EventIn(body)
        recs == RecordsOf(event.tenant_id, event.event_id)
        inserted == recs = {}
        rec == CHOOSE r \in recs : TRUE
        allowed == Strip(Upper(event.event_type)) \in ALLOWED_EVENT_TYPES
        same_hash == rec.payload_hash_first = sha256_hex(canonical_json(body))
    IN CASE inserted /\ allowed -> <<"A", 201, "processed", NULLSTR>>
         [] inserted /\ ~allowed -> <<"B", 202, "quarantined", "UNKNOWN_EVENT_TYPE">>
         [] ~inserted /\ same_hash /\ rec.status # "quarantined" ->
                <<"C", 200, "duplicate", NULLSTR>>
         [] ~inserted /\ same_hash /\ rec.status = "quarantined" ->
                <<"D", 202, "quarantined", "ALREADY_QUARANTINED">>
         [] ~inserted /\ ~same_hash ->
                <<"E", 202, "quarantined", "IDEMPOTENCY_CONFLICT">>

\* the exception_id the table's case puts in the response
C6_ExceptionId(body, case) ==
    LET event == EventIn(body)
        recs == RecordsOf(event.tenant_id, event.event_id)
    IN CASE case \in {"A", "C"} -> lastResp'.exception_id = NULL
         [] case = "D" -> \A r \in recs : lastResp'.exception_id = r.last_exception_id
         [] OTHER -> /\ \A e \in exceptions : e.exception_id # lastResp'.exception_id
                     /\ \E e \in exceptions' :
                           /\ e.exception_id = lastResp'.exception_id
                           /\ e.reason_code = lastResp'.reason_code

\* C6: every valid ingest (its body is the payload_json of the row it appends to Bronze) is
\* classified by the five-case table: 201 processed (A), 202 quarantined UNKNOWN_EVENT_TYPE
\* (B), 200 duplicate (C), 202 quarantined ALREADY_QUARANTINED with the record's
\* last_exception_id (D), 202 quarantined IDEMPOTENCY_CONFLICT (E).
C6_ClassificationTable ==
    [][(lastResp'.op = "ingest" /\ lastResp'.status_code # 400) =>
          /\ events_raw' # events_raw
          /\ \A new \in events_raw' \ events_raw :
                LET row == C6_Table(new.payload_json)
                IN /\ lastResp'.status_code = row[2]
                   /\ lastResp'.result = row[3]
                   /\ lastResp'.reason_code = row[4]
                   /\ C6_ExceptionId(new.payload_json, row[1])]_vars

\* case D has been served
C6_Witness ==
    /\ lastResp.op = "ingest"
    /\ lastResp.reason_code = "ALREADY_QUARANTINED"
    /\ lastResp.exception_id # NULL

-----------------------------------------------------------------------------
(* C7 *)

\* the step is an ingest answered 200 duplicate that appends one row to events_raw, creates no
\* Exception and no AuditEntry, leaves every other record alone and turns the record of its
\* key from old into new
C7_DuplicateFrame(Changed(_, _)) ==
    (lastResp'.op = "ingest" /\ lastResp'.result = "duplicate") =>
        /\ lastResp'.status_code = 200
        /\ \E row \in events_raw' \ events_raw :
              /\ row.raw_id = lastResp'.raw_id
              /\ events_raw' = events_raw \cup {row}
        /\ exceptions' = exceptions
        /\ audit_log' = audit_log
        /\ \E old \in events_processed, new \in events_processed' :
              /\ SameKey(old, lastResp'.tenant_id, lastResp'.idempotency_key)
              /\ events_processed' = (events_processed \ {old}) \cup {new}
              /\ new = Changed(old, new)

C7_OnlyLastRawAndSeen(old, new) ==
    [old EXCEPT !.last_raw_id = lastResp'.raw_id, !.last_seen_at = new.last_seen_at]

C7_AlsoHashLast(old, new) ==
    [old EXCEPT !.last_raw_id = lastResp'.raw_id, !.last_seen_at = new.last_seen_at,
                !.payload_hash_last = old.payload_hash_first]

\* C7 as stated: a duplicate (200) appends one RawEvent and leaves the IdempotencyRecord
\* unchanged except for last_raw_id and last_seen_at (payload_hash_last included), and
\* creates no Exception or AuditEntry.
C7_DuplicateKeepsRecord ==
    [][C7_DuplicateFrame(C7_OnlyLastRawAndSeen)]_vars

\* C7 amended: a duplicate (200) appends one RawEvent and leaves the IdempotencyRecord
\* unchanged except for last_raw_id, last_seen_at and payload_hash_last, which becomes the
\* submitted hash (equal to payload_hash_first); it creates no Exception or AuditEntry.
C7_DuplicateKeepsRecordButHashLast ==
    [][C7_DuplicateFrame(C7_AlsoHashLast)]_vars

\* a duplicate served for a key whose conflict had been resolved
C7_Witness ==
    /\ lastResp.op = "ingest"
    /\ lastResp.result = "duplicate"
    /\ \E e \in exceptions :
          /\ SameKey(e, lastResp.tenant_id, lastResp.idempotency_key)
          /\ e.status = "resolved"

-----------------------------------------------------------------------------
(* C8 *)

\* the two transactions overlap: each began before the other committed
C8_Concurrent(a, b) ==
    /\ a.ended = NULL \/ b.begun < a.ended
    /\ b.ended = NULL \/ a.begun < b.ended

\* two concurrent ingests of one key, begun with no committed record of the key, have
\* both run their upsert
C8_RacingPair(s, t) ==
    /\ s # t
    /\ txs[s].pc \in {"upserted", "done"}
    /\ txs[t].pc \in {"upserted", "done"}
    /\ TxKey(txs[s]) = TxKey(txs[t])
    /\ ~txs[s].prior
    /\ ~txs[t].prior
    /\ C8_Concurrent(txs[s], txs[t])

\* C8: of two concurrent ingests of the same (tenant_id, idempotency_key) with no prior
\* record, exactly one observes inserted = true and the other observes inserted = false
\* with first_raw_id equal to the raw_id of the one that inserted; no interleaving leaves
\* two records of one key.
C8_ConcurrentUpsertOneInserts ==
    /\ \A s, t \in Sessions :
          C8_RacingPair(s, t) =>
             /\ txs[s].inserted # txs[t].inserted
             /\ txs[s].inserted => /\ txs[s].first_raw_id = txs[s].raw_id
                                   /\ txs[t].first_raw_id = txs[s].raw_id
    /\ \A r1, r2 \in events_processed :
          SameKey(r1, r2.tenant_id, r2.idempotency_key) => r1 = r2

\* both ingests of a racing pair have committed, the second after waiting for the first
C8_Witness ==
    \E s, t \in Sessions :
       /\ C8_RacingPair(s, t)
       /\ txs[s].pc = "done"
       /\ txs[t].pc = "done"
       /\ txs[s].begun = txs[t].begun
       /\ txs[s].inserted
       /\ ~txs[t].inserted
       /\ txs[t].first_raw_id = txs[s].raw_id
       /\ txs[s].raw_id > txs[t].raw_id

-----------------------------------------------------------------------------
(* C9 *)

\* the body names a RawEvent of another tenant than the open exception's
C9_CrossTenantReplay(exception_id, body) ==
    /\ body.action = "override_and_replay"
    /\ body.canonical_raw_id >= 1
    /\ \E e \in exceptions, raw \in events_raw :
          /\ e.exception_id = exception_id
          /\ e.status = "open"
          /\ raw.raw_id = body.canonical_raw_id
          /\ raw.tenant_id # e.tenant_id

\* every record's payload_hash_first is the hash of a RawEvent of its own tenant, as
\* submitted or merge-patched
C9_HashFromOwnTenant ==
    \A r \in events_processed :
        \E raw \in events_raw :
            /\ raw.tenant_id = r.tenant_id
            /\ \/ r.payload_hash_first = raw.payload_hash
               \/ \E p \in Patches :
                     r.payload_hash_first =
                        sha256_hex(canonical_json(json_merge_patch(raw.payload_json, JObj(p))))

\* C9: in every reachable state, an override_and_replay of an open exception whose
\* canonical_raw_id names a RawEvent of another tenant is answered with
\* CANONICAL_RAW_TENANT_MISMATCH (400) and leaves the database as it was; no record's
\* payload_hash_first is derived from another tenant's RawEvent.
C9_TenantIsolationOnReplay ==
    /\ \A exception_id \in 1 .. ex_seq + 1, body \in ResolveBodies :
          C9_CrossTenantReplay(exception_id, body) =>
             LET r == resolve_exception(DB, exception_id, body, clock + 1)
             IN /\ r.resp.status_code = 400
                /\ r.resp.error = "CANONICAL_RAW_TENANT_MISMATCH"
                /\ r.db = DB
    /\ C9_HashFromOwnTenant

\* a cross-tenant replay has been rejected
C9_Witness ==
    /\ lastResp.op = "resolve"
    /\ lastResp.error = "CANONICAL_RAW_TENANT_MISMATCH"
    /\ \E e \in exceptions, raw \in events_raw :
          e.status = "open" /\ raw.tenant_id # e.tenant_id

-----------------------------------------------------------------------------
(* C10 *)

ResolveErrors ==
    {"NOT_FOUND", "ALREADY_RESOLVED", "MISSING_IDEMPOTENCY_RECORD", "INVALID_ACTION",
     "INVALID_CANONICAL_RAW_ID", "CANONICAL_RAW_TENANT_MISMATCH",
     "MISSING_EVENT_TYPE_IN_PAYLOAD", "REPLAY_VALIDATION_FAILED"}

\* C10: a resolve request that fails, with any of the documented errors, leaves the
\* exceptions, the idempotency records, Bronze and the audit log exactly as they were.
C10_FailedResolveChangesNothing ==
    [][(lastResp'.op = "resolve" /\ lastResp'.status_code # 200) =>
          /\ lastResp'.error \in ResolveErrors
          /\ UNCHANGED <<tables, raw_seq, ex_seq>>]_vars

\* a replay failed its validation while its exception was open and its key quarantined
C10_Witness ==
    /\ lastResp.op = "resolve"
    /\ lastResp.error = "REPLAY_VALIDATION_FAILED"
    /\ \E e \in exceptions, r \in events_processed :
          /\ e.status = "open"
          /\ SameKey(r, e.tenant_id, e.idempotency_key)
          /\ r.status = "quarantined"

-----------------------------------------------------------------------------
(* C11 *)

\* the AuditEntries that record a resolve of the exception
ResolveEntriesOf(exception_id) ==
    {i \in DOMAIN audit_log :
        /\ audit_log[i].action \in {"resolve_no_replay", "resolve_and_replay"}
        /\ audit_log[i].object_id = exception_id}

\* C11: each Exception is resolved at most once: of two resolve requests for one exception,
\* sequential or concurrent, at most one succeeds, so replay_attempts never exceeds 1 and at
\* most one resolve AuditEntry exists per exception.
C11_ResolvedAtMostOnce ==
    \A e \in exceptions :
       /\ e.replay_attempts <= 1
       /\ Cardinality(ResolveEntriesOf(e.exception_id)) <= 1

-----------------------------------------------------------------------------
(* C12 *)

\* the step is a successful override_and_replay
C12_ReplaySucceeded ==
    /\ lastResp'.op = "resolve"
    /\ lastResp'.status_code = 200
    /\ lastResp'.replay_attempted
    /\ audit_log' # audit_log

\* C12: a successful override_and_replay sets the record of the exception's key to
\* status=processed with payload_hash_first = payload_hash_last = the hash of the canonical
\* RawEvent's payload merge-patched with override_patch, last_error_code and
\* last_exception_id cleared and processed_at set; sets the Exception to resolved with
\* replay_attempts incremented by 1 and last_replay_status=processed; and appends one
\* AuditEntry with action=resolve_and_replay.
C12_ReplayEffects ==
    [][C12_ReplaySucceeded =>
          \E old \in exceptions, new \in exceptions', raw \in events_raw :
             LET final_hash == sha256_hex(canonical_json(
                                  json_merge_patch(raw.payload_json, new.override_patch)))
                 recs == {r \in events_processed' :
                             SameKey(r, old.tenant_id, old.idempotency_key)}
             IN /\ old.exception_id = lastResp'.exception_id
                /\ new.exception_id = old.exception_id
                /\ raw.raw_id = lastResp'.canonical_raw_id
                /\ lastResp'.final_payload_hash = final_hash
                /\ recs # {}
                /\ \A r \in recs :
                      /\ r.status = "processed"
                      /\ r.payload_hash_first = final_hash
                      /\ r.payload_hash_last = final_hash
                      /\ r.last_error_code = NULLSTR
                      /\ r.last_exception_id = NULL
                      /\ r.processed_at = clock'
                /\ new.status = "resolved"
                /\ new.replay_attempts = old.replay_attempts + 1
                /\ new.last_replay_status = "processed"
                /\ Len(audit_log') = Len(audit_log) + 1
                /\ SubSeq(audit_log', 1, Len(audit_log)) = audit_log
                /\ audit_log'[Len(audit_log')].action = "resolve_and_replay"
                /\ audit_log'[Len(audit_log')].object_id = old.exception_id]_vars

\* a replay with a patch that changes the payload has succeeded and rewritten both hashes
C12_Witness ==
    /\ lastResp.op = "resolve"
    /\ lastResp.status_code = 200
    /\ lastResp.replay_attempted
    /\ \E raw \in events_raw, r \in events_processed :
          /\ raw.raw_id = lastResp.canonical_raw_id
          /\ raw.payload_hash # lastResp.final_payload_hash
          /\ r.payload_hash_first = lastResp.final_payload_hash
          /\ r.status = "processed"

-----------------------------------------------------------------------------
(* C13 *)

\* the step is a successful mark_resolved_no_replay
C13_NoReplaySucceeded ==
    /\ lastResp'.op = "resolve"
    /\ lastResp'.status_code = 200
    /\ ~lastResp'.replay_attempted
    /\ audit_log' # audit_log

\* C13: a successful mark_resolved_no_replay sets the Exception to resolved with
\* last_replay_status=not_replayed and replay_attempts unchanged; sets the record of the
\* exception's key to status=ignored, last_error_code=IGNORED_BY_OPERATOR,
\* last_exception_id=this exception and processed_at set, leaving payload_hash_first,
\* payload_hash_last, first_raw_id and last_raw_id unchanged; and appends one AuditEntry
\* with action=resolve_no_replay.
C13_NoReplayEffects ==
    [][C13_NoReplaySucceeded =>
          \E old \in exceptions, new \in exceptions' :
             LET before == RecordsOf(old.tenant_id, old.idempotency_key)
                 after == {r \in events_processed' :
                              SameKey(r, old.tenant_id, old.idempotency_key)}
             IN /\ old.exception_id = lastResp'.exception_id
                /\ new.exception_id = old.exception_id
                /\ new.status = "resolved"
                /\ new.last_replay_status = "not_replayed"
                /\ new.replay_attempts = old.replay_attempts
                /\ Cardinality(before) = 1
                /\ Cardinality(after) = 1
                /\ \A b \in before, a \in after :
                      /\ a.status = "ignored"
                      /\ a.last_error_code = "IGNORED_BY_OPERATOR"
                      /\ a.last_exception_id = old.exception_id
                      /\ a.processed_at = clock'
                      /\ a.payload_hash_first = b.payload_hash_first
                      /\ a.payload_hash_last = b.payload_hash_last
                      /\ a.first_raw_id = b.first_raw_id
                      /\ a.last_raw_id = b.last_raw_id
                /\ Len(audit_log') = Len(audit_log) + 1
                /\ SubSeq(audit_log', 1, Len(audit_log)) = audit_log
                /\ audit_log'[Len(audit_log')].action = "resolve_no_replay"
                /\ audit_log'[Len(audit_log')].object_id = old.exception_id]_vars

\* an exception has been closed without replay and its key's record is ignored
C13_Witness ==
    /\ lastResp.op = "resolve"
    /\ lastResp.status_code = 200
    /\ ~lastResp.replay_attempted
    /\ \E e \in exceptions, r \in events_processed :
          /\ e.exception_id = lastResp.exception_id
          /\ e.last_replay_status = "not_replayed"
          /\ SameKey(r, e.tenant_id, e.idempotency_key)
          /\ r.status = "ignored"
          /\ r.last_exception_id = e.exception_id
          /\ r.payload_hash_first # r.payload_hash_last

-----------------------------------------------------------------------------
(* C14 *)

\* the step is an ingest answered as case B or case E
C14_QuarantiningIngest ==
    /\ lastResp'.op = "ingest"
    /\ lastResp'.status_code = 202
    /\ lastResp'.reason_code \in {"UNKNOWN_EVENT_TYPE", "IDEMPOTENCY_CONFLICT"}
    /\ events_raw' # events_raw

\* C14: in ingest cases B and E, one transaction inserts one open Exception whose raw_id is
\* the submitting RawEvent and whose reason_code is UNKNOWN_EVENT_TYPE (B) or
\* IDEMPOTENCY_CONFLICT (E), sets the key's record to status=quarantined with
\* last_error_code=reason, last_exception_id=the new exception and processed_at=NULL, and
\* appends one AuditEntry with action=quarantine; the exception_id of the response is that
\* new Exception.
C14_QuarantineEffects ==
    [][C14_QuarantiningIngest =>
          /\ exceptions \subseteq exceptions'
          /\ Cardinality(exceptions' \ exceptions) = 1
          /\ Cardinality(events_raw' \ events_raw) = 1
          /\ \A e \in exceptions' \ exceptions, raw \in events_raw' \ events_raw :
                LET recs == {r \in events_processed' :
                                SameKey(r, raw.tenant_id, raw.event_id)}
                    case == C6_Table(raw.payload_json)
                IN /\ e.status = "open"
                   /\ e.raw_id = raw.raw_id
                   /\ e.raw_id = lastResp'.raw_id
                   /\ e.tenant_id = raw.tenant_id
                   /\ e.idempotency_key = raw.event_id
                   /\ case[1] \in {"B", "E"}
                   /\ e.reason_code = case[4]
                   /\ e.reason_code = lastResp'.reason_code
                   /\ e.exception_id = lastResp'.exception_id
                   /\ Cardinality(recs) = 1
                   /\ \A r \in recs :
                         /\ r.status = "quarantined"
                         /\ r.last_error_code = e.reason_code
                         /\ r.last_exception_id = e.exception_id
                         /\ r.processed_at = NULL
                   /\ Len(audit_log') = Len(audit_log) + 1
                   /\ SubSeq(audit_log', 1, Len(audit_log)) = audit_log
                   /\ audit_log'[Len(audit_log')].action = "quarantine"
                   /\ audit_log'[Len(audit_log')].object_id = e.exception_id]_vars

\* a key that was processed has been quarantined by a conflicting submission (case E)
C14_Witness ==
    /\ lastResp.op = "ingest"
    /\ lastResp.reason_code = "IDEMPOTENCY_CONFLICT"
    /\ \E e \in exceptions, r \in events_processed :
          /\ e.exception_id = lastResp.exception_id
          /\ e.status = "open"
          /\ e.raw_id = lastResp.raw_id
          /\ SameKey(r, e.tenant_id, e.idempotency_key)
          /\ r.status = "quarantined"
          /\ r.last_exception_id = e.exception_id
          /\ r.first_raw_id # e.raw_id

-----------------------------------------------------------------------------
(* C15 *)

\* the indexes of the entries of log with one of the actions, about the exception
C15_EntriesOf(log, actions, exception_id) ==
    {i \in DOMAIN log : log[i].action \in actions /\ log[i].object_id = exception_id}

\* the quarantine entries and the Exception rows correspond one to one
C15_QuarantineEntriesMatchExceptions ==
    /\ \A e \in exceptions :
          Cardinality(C15_EntriesOf(audit_log, {"quarantine"}, e.exception_id)) = 1
    /\ \A i \in DOMAIN audit_log :
          audit_log[i].action = "quarantine" =>
             \E e \in exceptions : e.exception_id = audit_log[i].object_id

\* the step commits a successful resolve
C15_ResolveSucceeded ==
    /\ lastResp'.op = "resolve"
    /\ lastResp'.status_code = 200
    /\ clock' # clock

\* C15: the Audit Log is append-only and complete for exception transitions: the quarantine
\* entries correspond one to one to the Exception rows, every successful resolve appends,
\* in its own transaction, exactly one resolve_no_replay or resolve_and_replay entry and no
\* other step appends one, every new Exception gets its quarantine entry in the step that
\* inserts it, and no entry is ever modified or removed.
C15_AuditAppendOnlyAndComplete ==
    [][LET n == Len(audit_log)
           added == [i \in 1 .. (Len(audit_log') - n) |-> audit_log'[n + i]]
           resolves == {i \in DOMAIN added :
                           added[i].action \in {"resolve_no_replay", "resolve_and_replay"}}
           new_ids == {e.exception_id : e \in exceptions'} \
                         {e.exception_id : e \in exceptions}
       IN /\ Len(audit_log') >= n
          /\ SubSeq(audit_log', 1, n) = audit_log
          /\ C15_QuarantineEntriesMatchExceptions'
          /\ \A id \in new_ids : Cardinality(C15_EntriesOf(added, {"quarantine"}, id)) = 1
          /\ \A i \in DOMAIN added :
                added[i].action = "quarantine" => added[i].object_id \in new_ids
          /\ IF C15_ResolveSucceeded
             THEN /\ Cardinality(resolves) = 1
                  /\ \A i \in resolves :
                        /\ added[i].object_id = lastResp'.exception_id
                        /\ added[i].action = IF lastResp'.replay_attempted
                                             THEN "resolve_and_replay"
                                             ELSE "resolve_no_replay"
             ELSE resolves = {}]_vars

\* the log holds the quarantine entry and the resolve entry of one exception, and a later
\* quarantine entry after them
C15_Witness ==
    \E i, j, k \in DOMAIN audit_log :
       /\ i < j
       /\ j < k
       /\ audit_log[i].action = "quarantine"
       /\ audit_log[j].action \in {"resolve_no_replay", "resolve_and_replay"}
       /\ audit_log[j].object_id = audit_log[i].object_id
       /\ audit_log[k].action = "quarantine"

-----------------------------------------------------------------------------
(* C16 *)

\* C16: Bronze is immutable: every step leaves all existing RawEvent rows as they are; an
\* accepted ingest adds exactly one row and a resolve (override_and_replay included) adds
\* none.
C16_BronzeImmutable ==
    [][/\ events_raw \subseteq events_raw'
       /\ (lastResp'.op = "ingest" /\ Accepted(lastResp'))
             => Cardinality(events_raw' \ events_raw) = 1
       /\ lastResp'.op = "resolve" => events_raw' = events_raw]_vars

\* a replay has rewritten the ledger hashes of a key while the canonical RawEvent, and an
\* earlier RawEvent of the same key, still carry the hash of their own payload
C16_Witness ==
    /\ lastResp.op = "resolve"
    /\ lastResp.replay_attempted
    /\ \E raw, first \in events_raw :
          /\ raw.raw_id = lastResp.canonical_raw_id
          /\ raw.payload_hash # lastResp.final_payload_hash
          /\ raw.payload_hash = sha256_hex(canonical_json(raw.payload_json))
          /\ first.raw_id < raw.raw_id
          /\ first.tenant_id = raw.tenant_id
          /\ first.event_id = raw.event_id

-----------------------------------------------------------------------------
(* C17 *)

\* every committed RawEvent has the IdempotencyRecord of its (tenant_id, event_id)
C17_RawEventHasRecord ==
    \A raw \in events_raw : RecordsOf(raw.tenant_id, raw.event_id) # {}

\* every committed Exception has its quarantine AuditEntry, its RawEvent and the record
\* of its key
C17_ExceptionHasAuditAndRecord ==
    \A e \in exceptions :
       /\ \E i \in DOMAIN audit_log :
             audit_log[i].action = "quarantine" /\ audit_log[i].object_id = e.exception_id
       /\ \E raw \in events_raw : raw.raw_id = e.raw_id
       /\ RecordsOf(e.tenant_id, e.idempotency_key) # {}

\* nothing committed refers to the raw_id of a transaction that was rolled back
C17_NothingOfAborted ==
    \A s \in Sessions :
       txs[s].pc = "aborted" =>
          /\ \A raw \in events_raw : raw.raw_id # txs[s].raw_id
          /\ \A r \in events_processed :
                r.first_raw_id # txs[s].raw_id /\ r.last_raw_id # txs[s].raw_id
          /\ \A e \in exceptions : e.raw_id # txs[s].raw_id
          /\ \A i \in DOMAIN audit_log :
                audit_log[i].action = "quarantine" =>
                   audit_log[i].after_json.raw_id # txs[s].raw_id

\* C17: ingest is atomic: in every committed state a RawEvent exists only together with the
\* record of its key, and an Exception only together with its quarantine AuditEntry and, in
\* the step that commits it, the ledger update that points to it; an ingest that fails or
\* is cancelled after the Bronze insert changes no table and leaves none of its writes
\* visible.
C17_IngestAtomic ==
    [][/\ C17_RawEventHasRecord'
       /\ C17_ExceptionHasAuditAndRecord'
       /\ C17_NothingOfAborted'
       /\ \A e \in exceptions' \ exceptions :
             \E r \in events_processed' :
                /\ SameKey(r, e.tenant_id, e.idempotency_key)
                /\ r.status = "quarantined"
                /\ r.last_exception_id = e.exception_id
       /\ \A s \in Sessions :
             (txs'[s].pc = "aborted" /\ txs[s].pc # "aborted") => UNCHANGED tables]_vars

\* an ingest was rolled back after its upsert had inserted the record of a new key, and a
\* later ingest of that key has committed as the first one
C17_Witness ==
    \E s \in Sessions, raw \in events_raw, r \in events_processed :
       /\ txs[s].pc = "aborted"
       /\ txs[s].inserted
       /\ raw.raw_id > txs[s].raw_id
       /\ <<raw.tenant_id, raw.event_id>> = TxKey(txs[s])
       /\ SameKey(r, raw.tenant_id, raw.event_id)
       /\ r.first_raw_id = raw.raw_id

-----------------------------------------------------------------------------
(* C18 *)

\* C18: raw_id values are unique and their order agrees with the commit order of ingests:
\* a RawEvent that commits has a raw_id greater than every RawEvent committed before it,
\* also when ingests run concurrently.
C18_RawIdFollowsCommitOrder ==
    [][/\ \A new \in events_raw' \ events_raw, old \in events_raw : new.raw_id > old.raw_id
       /\ \A a, b \in events_raw' : a.raw_id = b.raw_id => a = b]_vars

-----------------------------------------------------------------------------
(* C19 *)

\* the MergePatch function of RFC 7396, section 2
RECURSIVE MergePatch(_, _)
MergePatch(Target, Patch) ==
    IF IsDict(Patch)
    THEN LET T == IF IsDict(Target) THEN Target.o ELSE EmptyDict
             P == Patch.o
             removed == {k \in DOMAIN P : IsNone(P[k])}
         IN JObj([k \in (DOMAIN T \cup DOMAIN P) \ removed |->
                    IF k \in DOMAIN P
                    THEN MergePatch(IF k \in DOMAIN T THEN T[k] ELSE JNull, P[k])
                    ELSE T[k]])
    ELSE Patch

\* C19: json_merge_patch(target, patch) returns the value of the RFC 7396 MergePatch
\* algorithm for every target and patch drawn from the bounded JSON values, including
\* patches whose nested objects hold null members where the target holds a non-object or
\* nothing.
C19_MergePatchIsRfc7396 ==
    merge.pc = "returned" => merge.result = MergePatch(merge.target, merge.patch)

-----------------------------------------------------------------------------
(* C20 *)

\* the call patched its target with the empty object
C20_EmptyPatchCall ==
    /\ merge.pc = "returned"
    /\ merge.patch = JObj(EmptyDict)

\* C20, as claimed: the empty patch is the identity: for every JSON value v, object or
\* not, json_merge_patch(v, {}) equals v.
C20_EmptyPatchIdentity ==
    C20_EmptyPatchCall => merge.result = merge.target

\* C20, amended: for every JSON object v, json_merge_patch(v, {}) equals v; for every v
\* that is not an object (a scalar or null) it is the empty object {}.
C20_EmptyPatchIdentityOnObjects ==
    C20_EmptyPatchCall =>
       /\ IsDict(merge.target) => merge.result = merge.target
       /\ ~IsDict(merge.target) => merge.result = JObj(EmptyDict)

\* the empty patch has been merged into a nested object with members
C20_Witness ==
    /\ C20_EmptyPatchCall
    /\ IsDict(merge.target)
    /\ \E k \in DOMAIN merge.target.o :
          /\ IsDict(merge.target.o[k])
          /\ DOMAIN merge.target.o[k].o # {}
    /\ merge.result = merge.target

-----------------------------------------------------------------------------
(* C21 *)

\* the next UPDATE of resolve transaction s waits for a row that transaction t holds
C21_WaitsFor(s, t) ==
    /\ s # t
    /\ rxs[s].pc \in {"checked", "updated1"}
    /\ HoldsRow(t, NextLock(rxs[s]), rxs[s])

\* C21: no deadlock among concurrent core transactions: row locks are acquired in a
\* compatible order, so no two transactions ever wait for a row the other holds (also for
\* a mark_resolved_no_replay and an override_and_replay of the same open exception).
C21_NoDeadlock ==
    \A s, t \in Sessions : ~(C21_WaitsFor(s, t) /\ C21_WaitsFor(t, s))

-----------------------------------------------------------------------------
(* C22 *)

\* the id the claim has the replay use: the body's when it provides one, else the
\* Exception's own raw_id
C22_ClaimedCanonicalRawId(body, ex) ==
    IF body.canonical_raw_id # NULL THEN body.canonical_raw_id ELSE ex.raw_id

\* C22: in every reachable state, an override_and_replay of an open exception uses the
\* body's canonical_raw_id whenever the body provides one (any integer) and the Exception's
\* raw_id only when it provides none; when the chosen id references no RawEvent the
\* resolve fails with INVALID_CANONICAL_RAW_ID (400).
C22_CanonicalRawIdChoice ==
    \A ex \in exceptions, body \in ResolveBodies :
       (ex.status = "open" /\ body.action = "override_and_replay") =>
          LET r == resolve_exception(DB, ex.exception_id, body, clock + 1)
              chosen == C22_ClaimedCanonicalRawId(body, ex)
          IN /\ fetch_events_raw(DB, chosen) = NoRow =>
                   /\ r.resp.status_code = 400
                   /\ r.resp.error = "INVALID_CANONICAL_RAW_ID"
             /\ r.resp.status_code = 200 => r.resp.canonical_raw_id = chosen

-----------------------------------------------------------------------------
(* C23 *)

\* the response of the resolve request in the current state
C23_Response(exception_id, body) ==
    resolve_exception(DB, exception_id, body, clock + 1).resp

\* the request is answered NOT_FOUND when no such Exception exists and ALREADY_RESOLVED when
\* the Exception is not open
C23_NotFoundOrAlreadyResolved(exception_id, body) ==
    LET ex == select_exception(DB, exception_id)
        resp == C23_Response(exception_id, body)
    IN /\ ex = NoRow => (resp.status_code = 404 /\ resp.error = "NOT_FOUND")
       /\ (ex # NoRow /\ ex.status # "open") =>
             (resp.status_code = 409 /\ resp.error = "ALREADY_RESOLVED")

\* C23, as claimed: in every reachable state a resolve request that names no existing
\* Exception fails with NOT_FOUND (404) and one that names a resolved Exception fails with
\* ALREADY_RESOLVED (409), for every value of the body's action, allowed or not.
C23_NotFoundOrResolvedForAnyAction ==
    \A exception_id \in 1 .. ex_seq + 1, body \in ResolveBodies :
       C23_NotFoundOrAlreadyResolved(exception_id, body)

\* C23, amended: a request whose action is not allowed fails with INVALID_ACTION (400)
\* whether or not the Exception exists or is open; a request with an allowed action fails
\* with NOT_FOUND (404) when no such Exception exists and with ALREADY_RESOLVED (409) when
\* the Exception is resolved.
C23_InvalidActionFirst ==
    \A exception_id \in 1 .. ex_seq + 1, body \in ResolveBodies :
       IF body.action \in ALLOWED_RESOLUTION_ACTIONS
       THEN C23_NotFoundOrAlreadyResolved(exception_id, body)
       ELSE /\ C23_Response(exception_id, body).status_code = 400
            /\ C23_Response(exception_id, body).error = "INVALID_ACTION"

\* a resolve of a resolved Exception has been refused while another id names no Exception
C23_Witness ==
    /\ lastResp.op = "resolve"
    /\ lastResp.status_code = 409
    /\ lastResp.error = "ALREADY_RESOLVED"
    /\ \E e \in exceptions : e.status = "resolved"
    /\ select_exception(DB, ex_seq + 1) = NoRow

-----------------------------------------------------------------------------
(* C24 *)

\* the response an ingest of payload would get in the state after the step
C24_LaterIngest(payload) ==
    ingest_event(DB', payload, clock' + 1).resp

\* C24: after a successful override_and_replay whose final_hash differs from the key's
\* previous payload_hash_first, the patched payload is the only de-duplication anchor: a
\* later ingest of the payload first seen for the key (the RawEvent whose hash was the
\* anchor) is classified as case E (202, IDEMPOTENCY_CONFLICT), and a later ingest of the
\* patched payload is a duplicate (200).
C24_PatchedPayloadIsAnchor ==
    [][C12_ReplaySucceeded =>
          \A ex \in exceptions, rec \in events_processed, canonical \in events_raw :
             (/\ ex.exception_id = lastResp'.exception_id
              /\ SameKey(rec, ex.tenant_id, ex.idempotency_key)
              /\ canonical.raw_id = lastResp'.canonical_raw_id
              /\ rec.payload_hash_first # lastResp'.final_payload_hash)
             => /\ \A first \in events_raw :
                      (/\ first.tenant_id = rec.tenant_id
                       /\ first.event_id = rec.idempotency_key
                       /\ first.payload_hash = rec.payload_hash_first)
                      => /\ C24_LaterIngest(first.payload_json).status_code = 202
                         /\ C24_LaterIngest(first.payload_json).reason_code =
                               "IDEMPOTENCY_CONFLICT"
                /\ LET patched == json_merge_patch(
                                     canonical.payload_json,
                                     select_exception(DB', ex.exception_id).override_patch)
                   IN /\ C24_LaterIngest(patched).status_code = 200
                      /\ C24_LaterIngest(patched).result = "duplicate"]_vars

-----------------------------------------------------------------------------
(* C25 *)

\* the RawEvent that rec.last_raw_id references
C25_LastRawEvent(rec) ==
    {raw \in events_raw : raw.raw_id = rec.last_raw_id}

\* the positions in the audit log of the successful replays applied to the key of rec
\* after the last ingest of that key
C25_ReplaysSinceLastIngest(rec) ==
    {i \in 1 .. Len(audit_log) :
        /\ audit_log[i].action = "resolve_and_replay"
        /\ audit_log[i].at > rec.last_seen_at
        /\ \E ex \in exceptions :
              /\ ex.exception_id = audit_log[i].object_id
              /\ SameKey(rec, ex.tenant_id, ex.idempotency_key)}

\* C25, as claimed: in every reachable state an IdempotencyRecord's payload_hash_last
\* equals the payload_hash of the RawEvent that its last_raw_id references, the most
\* recently ingested RawEvent of its key.
C25_HashLastIsLastRawHash ==
    \A rec \in events_processed :
       /\ C25_LastRawEvent(rec) # {}
       /\ \A raw \in C25_LastRawEvent(rec) : rec.payload_hash_last = raw.payload_hash

\* C25, amended: payload_hash_last equals the payload_hash of the RawEvent that last_raw_id
\* references as long as no override_and_replay succeeded on the key after that RawEvent
\* was ingested; after such a replay it equals payload_hash_first and the final_hash of
\* the latest of these replays, while last_raw_id still references the most recently
\* ingested RawEvent of the key.
C25_HashLastIsLastRawOrFinalHash ==
    \A rec \in events_processed :
       /\ C25_LastRawEvent(rec) # {}
       /\ \A raw \in C25_LastRawEvent(rec) :
             /\ raw.tenant_id = rec.tenant_id
             /\ raw.event_id = rec.idempotency_key
             /\ \A other \in events_raw :
                   (other.tenant_id = rec.tenant_id /\ other.event_id = rec.idempotency_key)
                   => other.raw_id <= raw.raw_id
             /\ IF C25_ReplaysSinceLastIngest(rec) = {}
                THEN rec.payload_hash_last = raw.payload_hash
                ELSE LET latest == CHOOSE i \in C25_ReplaysSinceLastIngest(rec) :
                                      \A j \in C25_ReplaysSinceLastIngest(rec) : j <= i
                     IN /\ rec.payload_hash_last = audit_log[latest].after_json.final_payload_hash
                        /\ rec.payload_hash_first = rec.payload_hash_last

\* a replay has rewritten payload_hash_last to a hash that no RawEvent of the key carries,
\* and another record still carries the hash of its last RawEvent
C25_Witness ==
    /\ \E rec \in events_processed :
          /\ C25_ReplaysSinceLastIngest(rec) # {}
          /\ \A raw \in events_raw : raw.payload_hash # rec.payload_hash_last
    /\ \E rec \in events_processed, raw \in events_raw :
          /\ C25_ReplaysSinceLastIngest(rec) = {}
          /\ raw.raw_id = rec.last_raw_id
          /\ rec.last_raw_id # rec.first_raw_id
          /\ raw.payload_hash = rec.payload_hash_last

-----------------------------------------------------------------------------
(* C26 *)

\* C26: in every reachable state every Exception with status=open belongs to a
\* (tenant_id, idempotency_key) whose IdempotencyRecord exists and has status=quarantined.
C26_OpenExceptionMeansQuarantined ==
    \A e \in exceptions :
       e.status = "open"
       => /\ RecordsOf(e.tenant_id, e.idempotency_key) # {}
          /\ \A r \in RecordsOf(e.tenant_id, e.idempotency_key) : r.status = "quarantined"

-----------------------------------------------------------------------------
(* C27 *)

\* the payloads the database has hashed: the payloads of the RawEvents and those payloads
\* merge-patched with the override_patch of a replayed Exception
C27_HashedPayloads ==
    {raw.payload_json : raw \in events_raw} \cup
    {json_merge_patch(raw.payload_json, ex.override_patch) :
        raw \in events_raw, ex \in {e \in exceptions : IsDict(e.override_patch)}}

\* every processed record's payload_hash_first is the content hash of a payload whose
\* trimmed, uppercased event_type is allowed
C27_ProcessedHashHasAllowedType ==
    \A rec \in events_processed :
       rec.status = "processed"
       => \E payload \in C27_HashedPayloads :
             /\ IsDict(payload)
             /\ rec.payload_hash_first = sha256_hex(canonical_json(payload))
             /\ final_event_type_of(payload) \in ALLOWED_EVENT_TYPES

\* C27: in every committed state an IdempotencyRecord with status=processed has a
\* payload_hash_first that is the content hash of a payload whose trimmed, uppercased
\* event_type is in {SALE, RETURN, CORRECTION, CANCEL, VOID}; and a record that exists
\* with another status becomes processed only in a step that is a successful
\* override_and_replay, never in an ingest.
C27_ProcessedOnlyWithAllowedType ==
    [][/\ C27_ProcessedHashHasAllowedType'
       /\ \A old \in events_processed, new \in events_processed' :
             (/\ SameKey(new, old.tenant_id, old.idempotency_key)
              /\ old.status # "processed"
              /\ new.status = "processed")
             => /\ C12_ReplaySucceeded
                /\ lastResp'.op # "ingest"]_vars

\* a replay has made a record processed whose first RawEvent has an event type that is not
\* allowed, and its payload_hash_first is now the hash of the patched payload
C27_Witness ==
    /\ lastResp.op = "resolve"
    /\ lastResp.status_code = 200
    /\ lastResp.replay_attempted
    /\ \E rec \in events_processed, raw \in events_raw :
          /\ rec.status = "processed"
          /\ raw.raw_id = rec.first_raw_id
          /\ raw.event_type \notin ALLOWED_EVENT_TYPES
          /\ rec.payload_hash_first = lastResp.final_payload_hash
          /\ rec.payload_hash_first # raw.payload_hash

-----------------------------------------------------------------------------
(* C28 *)

\* the committed RawEvents of the key of rec
C28_RawEventsOf(rec) ==
    {raw \in events_raw : raw.tenant_id = rec.tenant_id /\ raw.event_id = rec.idempotency_key}

\* C28: in every committed state, for every IdempotencyRecord, first_raw_id and
\* last_raw_id reference committed RawEvents of the record's tenant_id and event_id,
\* first_raw_id is the smallest and last_raw_id the largest raw_id among the committed
\* RawEvents of that key, so first_raw_id <= last_raw_id, also when ingests of one key
\* interleave between their Bronze insert and their upsert.
C28_FirstSmallestLastLargest ==
    \A rec \in events_processed :
       /\ \E raw \in C28_RawEventsOf(rec) : raw.raw_id = rec.first_raw_id
       /\ \E raw \in C28_RawEventsOf(rec) : raw.raw_id = rec.last_raw_id
       /\ \A raw \in C28_RawEventsOf(rec) :
             rec.first_raw_id <= raw.raw_id /\ raw.raw_id <= rec.last_raw_id
       /\ rec.first_raw_id <= rec.last_raw_id

====
